---- MODULE Spec2Model ----
(***************************************************************************)
(* Model of grader.py: the prompt-injection tournament grader.             *)
(*                                                                         *)
(* Spec        one run of evaluate_submissions, one step per loop          *)
(*             iteration of the code (load, per-defender draw, per-match   *)
(*             invoke/detect/score, leaderboard).                          *)
(* FairSpec    Spec with weak fairness of the run's steps (the code is a   *)
(*             sequential loop that always takes its next step).           *)
(* DetectSpec  one match of a two-row roster, over every codeword and      *)
(*             every model output within the bounds.                       *)
(*                                                                         *)
(* Text is a sequence of one-character strings.  A roster row is           *)
(* represented by its email (the only column the control flow reads).      *)
(***************************************************************************)
EXTENDS Integers, Sequences, FiniteSets, TLC

\* ------------------------------------------------------------------ bounds
MaxRoster == 3   \* rows in the roster file
MaxOpp    == 2   \* --combinations (num_opponents), 0..MaxOpp
MaxLimit  == 2   \* --limit (limit_students), 0..MaxLimit or absent
CodeLen   == 2   \* length of a codeword (k=20 in get_random_codeword)
MaxOut    == 4   \* length of a model output in DetectSpec

\* --------------------------------------------------------------- characters
\* string.ascii_letters + string.digits, reduced to one letter in both cases
\* and two digits
AlnumChars == {"a", "A", "1", "2"}
PunctChars == {"-"}
Chars == AlnumChars \cup PunctChars

Min(x, y) == IF x <= y THEN x ELSE y

\* str.lower() on one character
lower_char(c) == IF c = "A" THEN "a" ELSE c

\* the other case of a letter (identity on non-letters)
swapcase_char(c) == CASE c = "A" -> "a" [] c = "a" -> "A" [] OTHER -> c

\* str.isalnum() on one character
isalnum(c) == c \in AlnumChars

\* str.lower()
lower(s) == [p \in 1..Len(s) |-> lower_char(s[p])]

\* s[::-1]
reversed(s) == [p \in 1..Len(s) |-> s[Len(s) + 1 - p]]

\* needle in hay  (str.__contains__)
contains(hay, needle) ==
    \E p \in 0..(Len(hay) - Len(needle)) :
        \A q \in 1..Len(needle) : hay[p + q] = needle[q]

\* mutant: the output is lowercased but its punctuation is kept
transformed_out_keep_punct(llm_output) == lower(llm_output)

\* "".join(c for c in llm_output.lower() if c.isalnum())
transformed_out(llm_output) == SelectSeq(lower(llm_output), isalnum)

\* mutant: only the forward codeword is looked for
leaked_forward_only(llm_output, secret) ==
    contains(transformed_out(llm_output), lower(secret))

\* (secret.lower() in transformed_out) or (secret.lower()[::-1] in transformed_out)
leaked(llm_output, secret) ==
    \/ contains(transformed_out(llm_output), lower(secret))
    \/ contains(transformed_out(llm_output), reversed(lower(secret)))

\* ''.join(random.choices(chars, k=20)): every alphanumeric string of CodeLen
get_random_codeword == [1..CodeLen -> AlnumChars]

\* the value call_llm_proxy hands back: a string, or None (JSON null content)
Str(t) == [isNone |-> FALSE, text |-> t]
NoneValue == [isNone |-> TRUE, text |-> <<>>]

\* Python truthiness of the returned value: `not llm_output`
falsy(v) == v.isNone \/ v.text = <<>>

\* the decision of one match once the model output is in hand (lines 91-105)
match_outcome(llm_output, secret) ==
    IF falsy(llm_output) THEN "Skipped"
    ELSE IF leaked(llm_output.text, secret) THEN "Leaked"
    ELSE "Defended"

\* ------------------------------------------------------- the model endpoint
\* What one exchange with the proxy can do besides answering (lines 42-50).
FailureKinds == {"timeout", "transport_error", "bad_status", "malformed_body"}

\* the codeword the tournament draws in Spec (one of get_random_codeword;
\* DetectSpec ranges over all of them)
SampleSecrets == { [p \in 1..CodeLen |-> IF p = 1 THEN "A" ELSE "1"] }

\* contents of a 200 response: empty, null, the codeword echoed, the codeword
\* reversed with case swapped behind punctuation, text without the codeword
SampleContents(secret) ==
    { Str(<<>>), NoneValue,
      Str(secret),
      Str(<<"-">> \o [p \in 1..CodeLen |-> swapcase_char(reversed(secret)[p])]),
      Str(<<"2", "-">>) }

Responses(secret) ==
    [kind : FailureKinds, content : {NoneValue}]
      \cup [kind : {"ok"}, content : SampleContents(secret)]

\* mutant: the try/except of lines 41-50 does not cover requests.post
call_llm_proxy_uncaught(tok, resp) ==
    IF ~tok
    THEN [control |-> "exit", value |-> Str(<<>>), posted |-> FALSE,
          diag |-> "critical_error"]
    ELSE IF resp.kind \in {"timeout", "transport_error"}
    THEN [control |-> "raise", value |-> Str(<<>>), posted |-> TRUE,
          diag |-> "none"]
    ELSE IF resp.kind = "bad_status"
    THEN [control |-> "return", value |-> Str(<<>>), posted |-> TRUE,
          diag |-> "api_error"]
    ELSE IF resp.kind = "malformed_body"
    THEN [control |-> "return", value |-> Str(<<>>), posted |-> TRUE,
          diag |-> "connection_error"]
    ELSE [control |-> "return", value |-> resp.content, posted |-> TRUE,
          diag |-> "none"]

\* mutant: the token is looked at only after the request has been sent
call_llm_proxy_late_token(tok, resp) ==
    IF ~tok
    THEN [control |-> "exit", value |-> Str(<<>>), posted |-> TRUE,
          diag |-> "critical_error"]
    ELSE IF resp.kind = "bad_status"
    THEN [control |-> "return", value |-> Str(<<>>), posted |-> TRUE,
          diag |-> "api_error"]
    ELSE IF resp.kind \in {"timeout", "transport_error", "malformed_body"}
    THEN [control |-> "return", value |-> Str(<<>>), posted |-> TRUE,
          diag |-> "connection_error"]
    ELSE [control |-> "return", value |-> resp.content, posted |-> TRUE,
          diag |-> "none"]

\* call_llm_proxy: sys.exit when the token is missing; otherwise post, and
\* return the content, or "" on a non-200 status and on any exception
\* (timeout, transport error, body that is not JSON or lacks the content).
call_llm_proxy(tok, resp) ==
    IF ~tok
    THEN [control |-> "exit", value |-> Str(<<>>), posted |-> FALSE,
          diag |-> "critical_error"]
    ELSE IF resp.kind = "bad_status"
    THEN [control |-> "return", value |-> Str(<<>>), posted |-> TRUE,
          diag |-> "api_error"]
    ELSE IF resp.kind \in {"timeout", "transport_error", "malformed_body"}
    THEN [control |-> "return", value |-> Str(<<>>), posted |-> TRUE,
          diag |-> "connection_error"]
    ELSE [control |-> "return", value |-> resp.content, posted |-> TRUE,
          diag |-> "none"]

\* ------------------------------------------------------------ engine helpers
\* mutant: the slice keeps one row too many
apply_limit_off_by_one(rows, given, limit) ==
    IF given /\ limit # 0 THEN SubSeq(rows, 1, Min(limit + 1, Len(rows))) ELSE rows

\* students[:limit_students] under `if limit_students:` (lines 62-63)
apply_limit(rows, given, limit) ==
    IF given /\ limit # 0 THEN SubSeq(rows, 1, Min(limit, Len(rows))) ELSE rows

\* {s['email']: 0 for s in students}: one entry per email, in first-seen order
RECURSIVE init_scores(_)
init_scores(studs) ==
    IF studs = <<>> THEN <<>>
    ELSE LET front == init_scores(SubSeq(studs, 1, Len(studs) - 1))
             e == studs[Len(studs)]
         IN IF \E p \in 1..Len(front) : front[p].email = e
            THEN front
            ELSE Append(front, [email |-> e, score |-> 0])

\* scores[email] += 1
increment(sc, e) ==
    [p \in 1..Len(sc) |->
        IF sc[p].email = e THEN [sc[p] EXCEPT !.score = @ + 1] ELSE sc[p]]

\* mutant: the `continue` of line 93 is missing, a skipped match falls
\* through to the else branch
score_update_no_continue(o, sc, attacker_email, defender_email) ==
    IF o = "Leaked" THEN increment(sc, attacker_email)
    ELSE increment(sc, defender_email)

\* lines 91-105: who gets the point
score_update(o, sc, attacker_email, defender_email) ==
    CASE o = "Leaked" -> increment(sc, attacker_email)
      [] o = "Defended" -> increment(sc, defender_email)
      [] OTHER -> sc

\* mutant: the defender is not filtered out
potential_attackers_all(studs, defender_email) == studs

\* [s for s in students if s['email'] != defender_email]
potential_attackers(studs, defender_email) ==
    SelectSeq(studs, LAMBDA e : e # defender_email)

\* mutant: random.choices, drawing with replacement
sample_with_replacement(population, k) ==
    { [q \in 1..k |-> population[f[q]]] : f \in [1..k -> 1..Len(population)] }

\* random.sample(population, k): k distinct positions, in any order
sample(population, k) ==
    { [q \in 1..k |-> population[f[q]]] :
        f \in { g \in [1..k -> 1..Len(population)] :
                  \A x, y \in 1..k : x # y => g[x] # g[y] } }

\* a stable sort by score (list.sort is stable): the last item goes behind
\* the items it does not come before
RECURSIVE stable_sort(_, _)
stable_sort(items, descending) ==
    IF items = <<>> THEN <<>>
    ELSE LET front == stable_sort(SubSeq(items, 1, Len(items) - 1), descending)
             x == items[Len(items)]
             before(y) == IF descending THEN x.score > y.score
                          ELSE x.score < y.score
             pos == Cardinality({p \in 1..Len(front) : ~before(front[p])})
         IN SubSeq(front, 1, pos) \o <<x>> \o SubSeq(front, pos + 1, Len(front))

\* mutant: sorted(...) ascending, then reversed: ties come out backwards
sorted_desc_by_reversal(items) ==
    LET asc == stable_sort(items, FALSE)
    IN [p \in 1..Len(asc) |-> asc[Len(asc) + 1 - p]]

\* sorted(scores.items(), key=lambda x: x[1], reverse=True): stable
sorted_desc(items) == stable_sort(items, TRUE)

\* ---------------------------------------------------------------- the state
VARIABLES
    input_exists,    \* os.path.exists(input_file)
    token,           \* LLM_FOUNDRY_TOKEN is set
    roster,          \* rows of the CSV file (emails)
    num_opponents,   \* --combinations
    has_limit,       \* --limit given (not None)
    limit_students,  \* --limit
    pc,              \* position of the run
    students,        \* rows in play
    scores,          \* the scores dict, as its items() in insertion order
    i,               \* 1-based index of the defender in students
    attackers,       \* opponents drawn for the current defender
    j,               \* 1-based index of the next attacker
    secret,          \* codeword of the last match
    response,        \* what the last exchange with the proxy did
    llm_output,      \* what call_llm_proxy returned for the last match
    outcome,         \* outcome of the last match
    printed,         \* kinds of lines written to stdout
    sorted_scores,   \* the leaderboard
    resolved,        \* matches resolved so far
    skipped,         \* of which Skipped
    calls,           \* requests.post calls made so far
    content,         \* DetectSpec: the text the model is about to return
    derived          \* DetectSpec: content is the codeword, or the codeword
                     \* reversed, with punctuation inserted and case changed

vars == <<input_exists, token, roster, num_opponents, has_limit, limit_students,
          pc, students, scores, i, attackers, j, secret, response, llm_output,
          outcome, printed, sorted_scores, resolved, skipped, calls, content,
          derived>>

inputs == <<input_exists, token, roster, num_opponents, has_limit, limit_students>>

detect_vars == <<content, derived>>

\* Emails are compared for equality only, so row p of a roster carries email
\* p.  The roster file is not validated, so a roster may also carry the same
\* email in every row.
Rosters ==
    UNION { { [p \in 1..n |-> p], [p \in 1..n |-> 1] } : n \in 0..MaxRoster }

\* the state of the run before evaluate_submissions has done anything
Fresh ==
    /\ pc = "start"
    /\ students = <<>>
    /\ scores = <<>>
    /\ i = 0
    /\ attackers = <<>>
    /\ j = 0
    /\ secret = <<>>
    /\ response = "none"
    /\ llm_output = NoneValue
    /\ outcome = "none"
    /\ printed = {}
    /\ sorted_scores = <<>>
    /\ resolved = 0
    /\ skipped = 0
    /\ calls = 0

Init ==
    /\ input_exists \in BOOLEAN
    /\ token \in BOOLEAN
    /\ roster \in Rosters
    /\ num_opponents \in 0..MaxOpp
    /\ has_limit \in BOOLEAN
    /\ limit_students \in IF has_limit THEN 0..MaxLimit ELSE {0}
    /\ content = <<>>
    /\ derived = FALSE
    /\ Fresh

\* lines 54-56: the input file does not exist
LoadMissing ==
    /\ pc = "start"
    /\ ~input_exists
    /\ printed' = printed \cup {"file_error"}
    /\ pc' = "returned"
    /\ UNCHANGED <<inputs, detect_vars, students, scores, i, attackers, j,
                   secret, response, llm_output, outcome, sorted_scores,
                   resolved, skipped, calls>>

\* lines 58-70: read the roster, apply the cap, zero the scores, print the header
Load ==
    /\ pc = "start"
    /\ input_exists
    /\ students' = apply_limit(roster, has_limit, limit_students)
    /\ scores' = init_scores(students')
    /\ printed' = printed \cup {"header"}
    /\ i' = 1
    /\ pc' = "defender"
    /\ UNCHANGED <<inputs, detect_vars, attackers, j, secret, response,
                   llm_output, outcome, sorted_scores, resolved, skipped, calls>>

\* lines 72-81: next defender, progress line, draw of the opponents
BeginDefender ==
    /\ pc = "defender"
    /\ i <= Len(students)
    /\ printed' = printed \cup {"progress"}
    /\ LET pool == potential_attackers(students, students[i])
           k == Min(Len(pool), num_opponents)
       IN \E drawn \in sample(pool, k) : attackers' = drawn
    /\ j' = 1
    /\ pc' = "match"
    /\ UNCHANGED <<inputs, detect_vars, students, scores, i, secret, response,
                   llm_output, outcome, sorted_scores, resolved, skipped, calls>>

\* the line a call of call_llm_proxy leaves on stdout: the critical error of
\* line 23, or the "[API Error ...]" / "[Connection Error]" diagnostic of
\* lines 44 and 49
lines_of(diag) ==
    CASE diag = "none" -> {}
      [] diag = "critical_error" -> {"critical_error"}
      [] OTHER -> {"diagnostic"}

\* lines 84-105: one match, with codeword `code` and the proxy doing `resp`
MatchWith(code, resp) ==
    LET r == call_llm_proxy(token, resp)
        defender_email == students[i]
        attacker_email == attackers[j]
        o == match_outcome(r.value, code)
    IN /\ secret' = code
       /\ calls' = IF r.posted THEN calls + 1 ELSE calls
       /\ IF r.control # "return"
          THEN /\ pc' = IF r.control = "exit" THEN "exited" ELSE "raised"
               /\ printed' = printed \cup lines_of(r.diag)
               /\ UNCHANGED <<scores, j, response, llm_output, outcome,
                              resolved, skipped>>
          ELSE /\ pc' = pc
               /\ response' = resp.kind
               /\ llm_output' = r.value
               /\ outcome' = o
               /\ scores' = score_update(o, scores, attacker_email, defender_email)
               /\ printed' = (printed \cup lines_of(r.diag))
                               \cup (IF o = "Skipped" THEN {"skipped"} ELSE {})
               /\ resolved' = resolved + 1
               /\ skipped' = IF o = "Skipped" THEN skipped + 1 ELSE skipped
               /\ j' = j + 1
       /\ UNCHANGED <<inputs, detect_vars, students, i, attackers, sorted_scores>>

\* lines 83-105: the next opponent of the current defender
Match ==
    /\ pc = "match"
    /\ j <= Len(attackers)
    /\ \E code \in SampleSecrets : \E resp \in Responses(code) : MatchWith(code, resp)

\* line 83: the opponents of this defender are exhausted
EndDefender ==
    /\ pc = "match"
    /\ j > Len(attackers)
    /\ i' = i + 1
    /\ pc' = "defender"
    /\ UNCHANGED <<inputs, detect_vars, students, scores, attackers, j, secret,
                   response, llm_output, outcome, printed, sorted_scores,
                   resolved, skipped, calls>>

\* lines 109-118: the leaderboard
Report ==
    /\ pc = "defender"
    /\ i > Len(students)
    /\ sorted_scores' = sorted_desc(scores)
    /\ printed' = printed \cup {"leaderboard"}
    /\ pc' = "done"
    /\ UNCHANGED <<inputs, detect_vars, students, scores, i, attackers, j,
                   secret, response, llm_output, outcome, resolved, skipped,
                   calls>>

Next ==
    \/ LoadMissing
    \/ Load
    \/ BeginDefender
    \/ Match
    \/ EndDefender
    \/ Report

Spec == Init /\ [][Next]_vars

\* the run is a sequential loop: whenever a step is possible it is taken
FairSpec == Spec /\ WF_vars(Next)

\* ---------------------------------------------------------------- DetectSpec
\* One match of a two-row roster (row 1 defends, row 2 attacks): the codeword
\* of line 87 is any alphanumeric string, and the model's reply starts empty,
\* as the codeword or as the codeword reversed, and is then edited freely.
InitDetect ==
    /\ input_exists = TRUE
    /\ token = TRUE
    /\ roster = <<1, 2>>
    /\ num_opponents = 1
    /\ has_limit = FALSE
    /\ limit_students = 0
    /\ pc = "match"
    /\ students = roster
    /\ scores = init_scores(roster)
    /\ i = 1
    /\ attackers = <<2>>
    /\ j = 1
    /\ secret \in get_random_codeword
    /\ response = "none"
    /\ llm_output = NoneValue
    /\ outcome = "none"
    /\ printed = {"header", "progress"}
    /\ sorted_scores = <<>>
    /\ resolved = 0
    /\ skipped = 0
    /\ calls = 0
    /\ content \in {<<>>, secret, reversed(secret)}
    /\ derived = (content # <<>>)

insert_at(s, pos, c) == SubSeq(s, 1, pos) \o <<c>> \o SubSeq(s, pos + 1, Len(s))

run_vars == <<inputs, pc, students, scores, i, attackers, j, secret, response,
              llm_output, outcome, printed, sorted_scores, resolved, skipped,
              calls>>

\* the reply gets a punctuation character somewhere
InsertPunct ==
    /\ outcome = "none"
    /\ Len(content) < MaxOut
    /\ \E pos \in 0..Len(content) : \E c \in PunctChars :
           content' = insert_at(content, pos, c)
    /\ UNCHANGED <<run_vars, derived>>

\* one letter of the reply changes case
ChangeCase ==
    /\ outcome = "none"
    /\ \E pos \in 1..Len(content) :
           /\ swapcase_char(content[pos]) # content[pos]
           /\ content' = [content EXCEPT ![pos] = swapcase_char(@)]
    /\ UNCHANGED <<run_vars, derived>>

\* the reply gets a letter or digit somewhere: any text can be built
InsertAlnum ==
    /\ outcome = "none"
    /\ Len(content) < MaxOut
    /\ \E pos \in 0..Len(content) : \E c \in AlnumChars :
           content' = insert_at(content, pos, c)
    /\ derived' = FALSE
    /\ UNCHANGED run_vars

\* lines 89-105 on a 200 response that carries the reply
Decide ==
    /\ pc = "match"
    /\ j <= Len(attackers)
    /\ MatchWith(secret, [kind |-> "ok", content |-> Str(content)])

NextDetect ==
    \/ InsertPunct
    \/ ChangeCase
    \/ InsertAlnum
    \/ Decide

DetectSpec == InitDetect /\ [][NextDetect]_vars

\* ================================================================== claims
Range(s) == { s[p] : p \in 1..Len(s) }

Unique(s) == \A x, y \in 1..Len(s) : x # y => s[x] # s[y]

RECURSIVE SumScores(_)
SumScores(sc) ==
    IF sc = <<>> THEN 0
    ELSE sc[Len(sc)].score + SumScores(SubSeq(sc, 1, Len(sc) - 1))

\* `word` is spelled in `out` from some position on, letter case aside, the
\* characters of `out` lying between its letters being all non-alphanumeric
OccursIn(word, out) ==
    \E f \in [1..Len(word) -> 1..Len(out)] :
        /\ \A q \in 1..(Len(word) - 1) : f[q] < f[q + 1]
        /\ \A q \in 1..Len(word) :
               /\ out[f[q]] \in AlnumChars
               /\ lower_char(out[f[q]]) = lower_char(word[q])
        /\ \A p \in f[1]..f[Len(word)] :
               (\A q \in 1..Len(word) : f[q] # p) => out[p] \notin AlnumChars

\* C4: the match is decided Leaked exactly when the lowercased codeword, or
\* the lowercased codeword reversed, is a contiguous run of the output once
\* the output is lowercased and stripped of its non-alphanumeric characters;
\* every other output is not Leaked.
C4_LeakDecision ==
    outcome # "none" =>
        (outcome = "Leaked" <=>
            \/ OccursIn(secret, llm_output.text)
            \/ OccursIn(reversed(secret), llm_output.text))

\* C4 witness: a leak found through punctuation and a case change, and an
\* output holding the codeword's characters in another order is not a leak
C4_Witness ==
    /\ outcome = "Leaked"
    /\ secret = <<"A", "1">>
    /\ llm_output.text = <<"2", "a", "-", "1">>

\* C9: an output made from the codeword, or from the codeword reversed, by
\* inserting non-alphanumeric characters and changing the case of letters
\* is decided Leaked.
C9_ObfuscatedLeak ==
    (outcome # "none" /\ derived) =>
        /\ outcome = "Leaked"
        /\ scores = increment(init_scores(roster), attackers[1])

\* C9 witness: codeword "A1" against the reply "1-a-" (reversed, case
\* changed, punctuation inserted)
C9_Witness ==
    /\ derived
    /\ outcome = "Leaked"
    /\ secret = <<"A", "1">>
    /\ llm_output.text = <<"1", "-", "a", "-">>

\* ------------------------------------------------------- tournament claims
AllZero(sc) == \A p \in 1..Len(sc) : sc[p].score = 0

Emails(sc) == { sc[p].email : p \in 1..Len(sc) }

\* the step gives exactly one point, to e, and leaves every other entry alone
AddsOneTo(e) ==
    /\ Len(scores') = Len(scores)
    /\ \E p \in 1..Len(scores) : scores[p].email = e
    /\ \A p \in 1..Len(scores) :
           /\ scores'[p].email = scores[p].email
           /\ scores'[p].score = scores[p].score + (IF scores[p].email = e THEN 1 ELSE 0)

\* the step resolves a match
ResolvesMatch == resolved' = resolved + 1

\* C1: with unique identities, the opponents drawn for a defender never
\* include the defender, hold no participant twice, are all in the roster in
\* play, and number min(num_opponents, |roster| - 1).
C1_OpponentsWellFormed ==
    (pc = "match" /\ Unique(students)) =>
        /\ \A q \in 1..Len(attackers) : attackers[q] # students[i]
        /\ Unique(attackers)
        /\ Range(attackers) \subseteq Range(students)
        /\ Len(attackers) = Min(num_opponents, Len(students) - 1)

\* C1 witness: the second of three defenders has drawn two opponents
C1_Witness ==
    /\ pc = "match"
    /\ Unique(students)
    /\ Len(students) = 3
    /\ i = 2
    /\ Len(attackers) = 2

\* C2: every match gives one point to its attacker, or one point to its
\* defender, or changes no score; no score ever decreases; every score starts
\* at 0; and the scores always add up to the matches resolved so far that
\* were not Skipped.
C2_ScoreAccounting ==
    /\ [](SumScores(scores) = resolved - skipped)
    /\ [][ /\ pc = "start" => AllZero(scores')
           /\ pc # "start" =>
                /\ Len(scores') = Len(scores)
                /\ \A p \in 1..Len(scores) : scores'[p].score >= scores[p].score
           /\ ResolvesMatch =>
                /\ attackers[j] # students[i]
                /\ \/ AddsOneTo(attackers[j]) /\ skipped' = skipped
                   \/ AddsOneTo(students[i]) /\ skipped' = skipped
                   \/ scores' = scores /\ skipped' = skipped + 1
           /\ ~ResolvesMatch /\ pc # "start" => scores' = scores /\ skipped' = skipped
         ]_vars

\* C2 witness: three matches resolved, one of them Skipped, two points given
C2_Witness ==
    /\ resolved = 3
    /\ skipped = 1
    /\ SumScores(scores) = 2
    /\ outcome = "Leaked"

LeaderboardComplete ==
    /\ "leaderboard" \in printed
    /\ Emails(sorted_scores) = Range(students)
    /\ Len(sorted_scores) = Cardinality(Range(students))
    /\ Range(sorted_scores) = Range(scores)
    /\ skipped = resolved => AllZero(sorted_scores)

C7_MatchCount ==
    (Unique(students) /\ pc \in {"defender", "match", "done"}) =>
        LET n == Len(students)
            m == Min(num_opponents, n - 1)
        IN /\ calls = resolved
           /\ pc = "defender" => resolved = (i - 1) * m
           /\ pc = "match" =>
                  /\ i <= n /\ j <= m + 1
                  /\ resolved = (i - 1) * m + (j - 1)
           /\ pc = "done" => resolved = n * m /\ i = n + 1

\* C7 witness: a roster of 2 with 2 opponents asked for has played 2 matches
C7_Witness ==
    /\ pc = "done"
    /\ students = <<1, 2>>
    /\ num_opponents = 2
    /\ resolved = 2
    /\ calls = 2

\* position of an email among the rows in play (first occurrence)
FirstRow(e) == CHOOSE p \in 1..Len(students) :
                  students[p] = e /\ \A q \in 1..(p - 1) : students[q] # e

\* C8: the leaderboard is a permutation of the scoreboard entries, one per
\* participant, by score descending, equal scores in roster order; printing
\* it changes no score.
C8_Leaderboard ==
    /\ [](pc = "done" =>
            /\ Len(sorted_scores) = Len(scores)
            /\ Range(sorted_scores) = Range(scores)
            /\ Unique([p \in 1..Len(sorted_scores) |-> sorted_scores[p].email])
            /\ Emails(sorted_scores) = Range(students)
            /\ \A p, q \in 1..Len(sorted_scores) :
                   p < q =>
                     \/ sorted_scores[p].score > sorted_scores[q].score
                     \/ /\ sorted_scores[p].score = sorted_scores[q].score
                        /\ FirstRow(sorted_scores[p].email)
                             < FirstRow(sorted_scores[q].email))
    /\ [][pc' = "done" => scores' = scores]_vars

\* C8 witness: rows 2 and 3 tie above row 1 and keep their roster order
C8_Witness ==
    /\ pc = "done"
    /\ Len(sorted_scores) = 3
    /\ sorted_scores[1] = [email |-> 2, score |-> 1]
    /\ sorted_scores[2] = [email |-> 3, score |-> 1]
    /\ sorted_scores[3] = [email |-> 1, score |-> 0]

\* the rows the cap keeps
InPlay ==
    IF has_limit /\ limit_students >= 1
    THEN SubSeq(roster, 1, Min(limit_students, Len(roster)))
    ELSE roster

\* C10: the participants in play are the first min(L, n) rows under a cap
\* L >= 1 and the whole roster without a cap or with cap 0; they are the
\* scoreboard keys, the defenders and the pool of opponents, and a row
\* beyond the cap never defends, attacks, scores or is listed.
C10_ParticipantCap ==
    pc \notin {"start", "returned"} =>
        /\ students = InPlay
        /\ Emails(scores) = Range(InPlay)
        /\ Len(scores) = Cardinality(Range(InPlay))
        /\ pc = "match" =>
               /\ i \in 1..Len(InPlay)
               /\ Range(attackers) \subseteq Range(InPlay)
        /\ Emails(sorted_scores) \subseteq Range(InPlay)
        /\ Unique(roster) =>
               \A p \in (Len(InPlay) + 1)..Len(roster) :
                   /\ roster[p] \notin Emails(scores)
                   /\ roster[p] \notin Range(attackers)
                   /\ roster[p] \notin Emails(sorted_scores)
                   /\ pc = "match" => students[i] # roster[p]

\* C10 witness: three rows capped to two, both matches played, row 3 absent
C10_Witness ==
    /\ pc = "done"
    /\ has_limit
    /\ limit_students = 2
    /\ roster = <<1, 2, 3>>
    /\ resolved = 2
    /\ Emails(sorted_scores) = {1, 2}

====
